---- MODULE Spec2Model ----
(***************************************************************************)
(* Order lifecycle of the "A Tu Puerta" delivery backend.                  *)
(*                                                                         *)
(* The repository holds several revisions of one Express server.  Each    *)
(* revision is modelled by its own set of actions over the same state and  *)
(* has its own specification:                                              *)
(*   SpecMem   in-memory object store        (src/unnamed/part_000)        *)
(*   SpecArch  SQLite store + Supabase archive (src/unnamed/part_002,      *)
(*             third server of the file, lines 340-861)                    *)
(*   SpecSupa  Supabase store + JWT          (src/backend-server.js)       *)
(*                                                                         *)
(* A handler that issues one database statement is one atomic action: the  *)
(* statement is executed atomically by the database and the handler reads  *)
(* nothing before it.  A handler that awaits between a read and a write    *)
(* (entregado, verificar-ubicacion) is split at each await; the request    *)
(* in flight is kept in enVuelo.                                           *)
(*                                                                         *)
(* Coordinates are integers in micro-degrees (1e-6 degree).                *)
(*                                                                         *)
(* A row keeps the columns the handlers read or write after the insert     *)
(* (id, productos, the two locations, estado, mensajeroId).  The columns   *)
(* that are only copied from the request at insert time (distance, price,  *)
(* route geometry, usuario_*, mensajero_nombre/telefono) are left out.     *)
(***************************************************************************)
EXTENDS Integers, Sequences, FiniteSets, TLC

VARIABLES
    pedidos,    \* the order store, rows in insertion order
    archivo,    \* Supabase table pedidos_entregados: archived pedido_id's
    enVuelo,    \* requests suspended at an await, one per connection slot
    last,       \* the last HTTP response sent
    mensajeros, \* the SQLite table mensajeros: telefono -> row
    reloj,      \* Date.now(), in units of 5 minutes
    actualizado,\* an actualizar-estado request has been served
    medida,     \* a call of calcularDistancia: its arguments and its results
    emitido     \* the codes sent to each telefono (the simulated SMS): the
                \* last one and the one before it

vars ==
    <<pedidos, archivo, enVuelo, last, mensajeros, reloj, actualizado, medida,
      emitido>>

\* what the handlers of the pedidos endpoints never touch
fueraDePedidos == <<mensajeros, reloj, medida, emitido>>

(***************************************************************************)
(* Bounds of the model.                                                    *)
(***************************************************************************)
MaxPedidos == 2      \* order ids 1..MaxPedidos
MaxMensajeros == 2   \* courier / user ids 1..MaxMensajeros
MaxDatos == 2        \* distinct request payloads (productos + locations)
MaxEnVuelo == 1      \* requests that may be suspended at an await at once
MaxArchivo == 1      \* rows kept in pedidos_entregados
MaxTelefonos == 2    \* telefonos 1..MaxTelefonos
MaxCodigos == 2      \* the values Math.random() gives a code
MaxReloj == 3        \* the last instant of the clock

PedidoIds == 1..MaxPedidos
Mensajeros == 1..MaxMensajeros
Datos == 1..MaxDatos
Slots == 1..MaxEnVuelo

NULL == 0            \* SQL NULL / JS undefined for an id-valued column
AUSENTE == "ausente" \* a field the request body does not carry

(***************************************************************************)
(* Request payloads.  productos is opaque; the two locations are           *)
(* {lat, lng} objects.  Payload 1 is the scenario of the specification:    *)
(* pickup (23.1136, -82.3666), drop-off (23.1200, -82.3700).  The other    *)
(* payloads are orders of the same shop for customers next door: the       *)
(* drop-off is 100 * (d - 1) micro-degrees (11 m for d = 2) north of the   *)
(* pickup.                                                                 *)
(***************************************************************************)
Productos(d) == d
UbicacionVenta(d) == <<23113600, -82366600>>
UbicacionEntrega(d) ==
    IF d = 1 THEN <<23120000, -82370000>>
    ELSE <<UbicacionVenta(d)[1] + 100 * (d - 1), UbicacionVenta(d)[2]>>

\* Positions a courier can report: the pickup point and the drop-off point of
\* payload 1, and three points placed relative to that pickup point:
\*   Cerca   290 micro-degrees east  (29.66 m away, 0.00029 degree)
\*   Limite  270 micro-degrees north (30.02 m away, 0.00027 degree)
\*   Lejos   9000 micro-degrees south (1000 m away; 1747 m from the drop-off)
Cerca == <<UbicacionVenta(1)[1], UbicacionVenta(1)[2] + 290>>
Limite == <<UbicacionVenta(1)[1] + 270, UbicacionVenta(1)[2]>>
Lejos == <<UbicacionVenta(1)[1] - 9000, UbicacionVenta(1)[2]>>
Posiciones == {UbicacionVenta(1), UbicacionEntrega(1), Cerca, Limite, Lejos}

(***************************************************************************)
(* The store.                                                              *)
(***************************************************************************)
Existe(id) == \E i \in 1..Len(pedidos) : pedidos[i].id = id

Pos(id) == CHOOSE i \in 1..Len(pedidos) : pedidos[i].id = id

\* SELECT * FROM pedidos WHERE id = ?   (only used when Existe(id))
Fila(id) == pedidos[Pos(id)]

\* an update that moves a delivered order out of the table
SetEstadoYArchiva(id, e) ==
    IF e = "entregado"
    THEN SelectSeq(pedidos, LAMBDA fila : fila.id # id)
    ELSE [i \in 1..Len(pedidos) |->
            IF pedidos[i].id = id THEN [pedidos[i] EXCEPT !.estado = e] ELSE pedidos[i]]

\* an update without its WHERE: every row takes the estado, when id has a row
SetEstadoSinWhere(id, e) ==
    [i \in 1..Len(pedidos) |->
        IF \E j \in 1..Len(pedidos) : pedidos[j].id = id
        THEN [pedidos[i] EXCEPT !.estado = e] ELSE pedidos[i]]

\* UPDATE pedidos SET estado = ? WHERE id = ?   (no row: no change)
SetEstado(id, e) ==
    [i \in 1..Len(pedidos) |->
        IF pedidos[i].id = id THEN [pedidos[i] EXCEPT !.estado = e] ELSE pedidos[i]]

\* SELECT * FROM pedidos WHERE estado = ?   (the rows in the order of the table)
FilasConEstado(e) == SelectSeq(pedidos, LAMBDA fila : fila.estado = e)

Estados == {"disponible", "asignado", "en proceso", "en camino", "entregado"}

\* Position of an estado in Available -> Assigned -> InTransit -> Delivered.
\* 'asignado' (written by the SQLite servers) and 'en proceso' (written by the
\* Supabase server, read by the geofence) both stand for Assigned.
Rango(e) ==
    CASE e = "disponible" -> 0
      [] e = "asignado"   -> 1
      [] e = "en proceso" -> 1
      [] e = "en camino"  -> 2
      [] e = "entregado"  -> 3
      [] OTHER            -> 0

(***************************************************************************)
(* Responses and suspended requests.                                       *)
(***************************************************************************)
\* mensajeroId: the courier of an asignar request (NULL for the other requests);
\* estado: the estado a verificar-ubicacion response carries ("" otherwise);
\* previo: for asignar, the estado the order had when the request was served
\* ("" when there was no order, and for the other requests);
\* pos, distanciaVenta, distanciaEntrega: the position a verificar-ubicacion
\* request reported and the two distances of its response, as integers of
\* 1e-6 of the number sent (SinPos and 0 for the other responses);
\* cuerpo: the row or the rows a GET sends (<<>> otherwise).
SinPos == <<0, 0>>

Resp(op, id, status, estado, m) ==
    [op |-> op, pedidoId |-> id, status |-> status, estado |-> estado,
     mensajeroId |-> m, previo |-> "", pos |-> SinPos,
     distanciaVenta |-> 0, distanciaEntrega |-> 0, cuerpo |-> <<>>,
     firmado |-> FALSE]

\* the response of verificar-ubicacion
RespUbicacion(id, estado, pos, dv, de) ==
    [Resp("verificar-ubicacion", id, 200, estado, NULL)
        EXCEPT !.pos = pos, !.distanciaVenta = dv, !.distanciaEntrega = de]

\* the response of a GET: the row, or the rows, in its body
RespCuerpo(op, id, cuerpo) ==
    [Resp(op, id, 200, "", NULL) EXCEPT !.cuerpo = cuerpo]

EstadoPrevio(id) == IF Existe(id) THEN Fila(id).estado ELSE ""

\* A suspended request: its handler (op), its position in it (fase) and the
\* locals it holds: pedido.estado as it was read (leido), nuevoEstado, the
\* position of the body and the two distances.
Libre ==
    [op |-> "libre", pedidoId |-> 0, leido |-> "", nuevoEstado |-> "", fase |-> "",
     pos |-> SinPos, distanciaVenta |-> 0, distanciaEntrega |-> 0,
     firmado |-> FALSE]

SlotLibre(s) == enVuelo[s] = Libre

Init ==
    /\ pedidos = <<>>
    /\ archivo = <<>>
    /\ enVuelo = [s \in Slots |-> Libre]
    /\ last = [op |-> "none", pedidoId |-> 0, status |-> 0, estado |-> "",
               mensajeroId |-> NULL, previo |-> "", pos |-> SinPos,
               distanciaVenta |-> 0, distanciaEntrega |-> 0, cuerpo |-> <<>>,
               firmado |-> FALSE]
    /\ mensajeros = <<>>
    /\ reloj = 0
    /\ actualizado = FALSE
    /\ medida = <<>>
    /\ emitido = <<>>

(***************************************************************************)
(* Third server of src/unnamed/part_002 (lines 340-861): SQLite table      *)
(* pedidos (id TEXT PRIMARY KEY) and the Supabase archive.                 *)
(***************************************************************************)
FilaArch(id, d) ==
    [id |-> id, productos |-> Productos(d),
     ubicacionVenta |-> UbicacionVenta(d), ubicacionEntrega |-> UbicacionEntrega(d),
     estado |-> "disponible", mensajeroId |-> NULL]

\* POST /api/pedidos.  d = 0 is a body without productos / locations:
\* JSON.stringify(undefined) binds NULL to a NOT NULL column.
Arch_pedidos_post(id, d) ==
    /\ IF Existe(id) \/ d = 0
       THEN /\ pedidos' = pedidos
            /\ last' = Resp("crear", id, 500, "", NULL)
       ELSE /\ pedidos' = Append(pedidos, FilaArch(id, d))
            /\ last' = Resp("crear", id, 200, "", NULL)
    /\ UNCHANGED <<archivo, enVuelo>>
    /\ UNCHANGED <<actualizado, fueraDePedidos>>

\* an asignar that writes the estado the geofence reads
AsignarArchEnProceso(id, m) ==
    [i \in 1..Len(pedidos) |->
        IF pedidos[i].id = id
        THEN [pedidos[i] EXCEPT !.estado = "en proceso", !.mensajeroId = m]
        ELSE pedidos[i]]

\* UPDATE pedidos SET estado = 'asignado', mensajeroId = ? WHERE id = ?
AsignarArch(id, m) ==
    [i \in 1..Len(pedidos) |->
        IF pedidos[i].id = id
        THEN [pedidos[i] EXCEPT !.estado = "asignado", !.mensajeroId = m]
        ELSE pedidos[i]]

\* POST /api/pedidos/asignar
Arch_asignar(id, m) ==
    /\ pedidos' = AsignarArch(id, m)
    /\ last' = [Resp("asignar", id, 200, "", m) EXCEPT !.previo = EstadoPrevio(id)]
    /\ UNCHANGED <<archivo, enVuelo>>
    /\ UNCHANGED <<actualizado, fueraDePedidos>>

\* a list of permitted values that also has 'cancelado'
estadosPermitidosConCancelado ==
    {"disponible", "asignado", "en proceso", "en camino", "entregado", "cancelado"}

estadosPermitidos == {"disponible", "asignado", "en proceso", "en camino", "entregado"}

\* POST /api/pedidos/actualizar-estado; the estado of the record of the
\* response is the estado the request asked for
Arch_actualizar_estado(id, e) ==
    /\ IF e \notin estadosPermitidos
       THEN /\ pedidos' = pedidos
            /\ last' = Resp("actualizar-estado", id, 400, e, NULL)
       ELSE /\ pedidos' = SetEstado(id, e)
            /\ last' = Resp("actualizar-estado", id, 200, e, NULL)
    /\ UNCHANGED <<archivo, enVuelo>>
    /\ actualizado' = TRUE
    /\ UNCHANGED fueraDePedidos

\* POST /api/pedidos/entregado, step 1: SELECT the order (404 if none).
Arch_entregado_leer(s, id) ==
    /\ SlotLibre(s)
    /\ IF ~Existe(id)
       THEN /\ last' = Resp("entregado", id, 404, "", NULL)
            /\ enVuelo' = enVuelo
       ELSE /\ enVuelo' = [enVuelo EXCEPT ![s] =
                  [Libre EXCEPT !.op = "entregado", !.pedidoId = id,
                                !.fase = "archivar"]]
            /\ last' = last
    /\ UNCHANGED <<pedidos, archivo>>
    /\ UNCHANGED <<actualizado, fueraDePedidos>>

\* step 2, the insert into pedidos_entregados succeeds
Arch_entregado_archivar(s) ==
    /\ enVuelo[s].op = "entregado" /\ enVuelo[s].fase = "archivar"
    /\ Len(archivo) < MaxArchivo
    /\ archivo' = Append(archivo, enVuelo[s].pedidoId)
    /\ enVuelo' = [enVuelo EXCEPT ![s].fase = "actualizar"]
    /\ UNCHANGED <<pedidos, last>>
    /\ UNCHANGED <<actualizado, fueraDePedidos>>

\* step 2, the insert fails: the handler throws and answers 500
Arch_entregado_archivar_error(s) ==
    /\ enVuelo[s].op = "entregado" /\ enVuelo[s].fase = "archivar"
    /\ enVuelo' = [enVuelo EXCEPT ![s] = Libre]
    /\ last' = Resp("entregado", enVuelo[s].pedidoId, 500, "", NULL)
    /\ UNCHANGED <<pedidos, archivo>>
    /\ UNCHANGED <<actualizado, fueraDePedidos>>

\* step 3: UPDATE pedidos SET estado = 'entregado' WHERE id = ?
Arch_entregado_actualizar(s) ==
    /\ enVuelo[s].op = "entregado" /\ enVuelo[s].fase = "actualizar"
    /\ pedidos' = SetEstado(enVuelo[s].pedidoId, "entregado")
    /\ enVuelo' = [enVuelo EXCEPT ![s] = Libre]
    /\ last' = Resp("entregado", enVuelo[s].pedidoId, 200, "", NULL)
    /\ UNCHANGED archivo
    /\ UNCHANGED <<actualizado, fueraDePedidos>>

Abs(x) == IF x < 0 THEN -x ELSE x

MARGEN_ERROR == 270   \* 0.00027 degree, in micro-degrees

\* Math.sqrt(dlat^2 + dlng^2) <= MARGEN_ERROR, compared on the squares.  A
\* component beyond the margin decides alone (and keeps the squares small).
DentroMargenPlano(p, q) ==
    /\ Abs(p[1] - q[1]) <= MARGEN_ERROR
    /\ Abs(p[2] - q[2]) <= MARGEN_ERROR
    /\ (p[1] - q[1]) * (p[1] - q[1]) + (p[2] - q[2]) * (p[2] - q[2])
          <= MARGEN_ERROR * MARGEN_ERROR

\* Math.sqrt rounded down: Newton's iteration downward from x, x * x >= n
RECURSIVE IsqrtDesde(_, _)
IsqrtDesde(n, x) ==
    LET y == (x + n \div x) \div 2 IN IF y >= x THEN x ELSE IsqrtDesde(n, y)

\* the square root of a^2 + b^2 or less starts from |a| + |b|
Isqrt(n, a, b) == IF n = 0 THEN 0 ELSE IsqrtDesde(n, Abs(a) + Abs(b))

\* Math.sqrt(dlat^2 + dlng^2): the number of the response is in degrees, the
\* model keeps it in micro-degrees, rounded down
DistanciaPlana(p, q) ==
    LET dlat == p[1] - q[1]
        dlng == p[2] - q[2]
    IN Isqrt(dlat * dlat + dlng * dlng, dlat, dlng)

\* a nuevoEstado that looks at the delivery point first, whatever the estado
NuevoEstadoArchEntregaPrimero(pedido, pos) ==
    IF DentroMargenPlano(pos, pedido.ubicacionEntrega)
       /\ pedido.estado \in {"en proceso", "en camino"}
    THEN "entregado"
    ELSE IF DentroMargenPlano(pos, pedido.ubicacionVenta) /\ pedido.estado = "en proceso"
         THEN "en camino"
         ELSE ""

\* nuevoEstado of verificar-ubicacion; "" is null
NuevoEstadoArch(pedido, pos) ==
    IF DentroMargenPlano(pos, pedido.ubicacionVenta) /\ pedido.estado = "en proceso"
    THEN "en camino"
    ELSE IF DentroMargenPlano(pos, pedido.ubicacionEntrega) /\ pedido.estado = "en camino"
         THEN "entregado"
         ELSE ""

\* a verificar-ubicacion that answers an id that no order has like a report
\* that changes nothing
Arch_verificar_ubicacion_leer_sin404(s, id, pos) ==
    /\ SlotLibre(s)
    /\ IF ~Existe(id)
       THEN /\ last' = RespUbicacion(id, "", pos, 0, 0)
            /\ enVuelo' = enVuelo
       ELSE LET dv == DistanciaPlana(pos, Fila(id).ubicacionVenta)
                de == DistanciaPlana(pos, Fila(id).ubicacionEntrega)
            IN IF NuevoEstadoArch(Fila(id), pos) = ""
               THEN /\ last' = RespUbicacion(id, Fila(id).estado, pos, dv, de)
                    /\ enVuelo' = enVuelo
               ELSE /\ enVuelo' = [enVuelo EXCEPT ![s] =
                          [op |-> "verificar-ubicacion", pedidoId |-> id,
                           leido |-> Fila(id).estado,
                           nuevoEstado |-> NuevoEstadoArch(Fila(id), pos),
                           fase |-> "actualizar", pos |-> pos,
                           distanciaVenta |-> dv, distanciaEntrega |-> de,
                           firmado |-> FALSE]]
                    /\ last' = last
    /\ UNCHANGED <<pedidos, archivo>>
    /\ UNCHANGED <<actualizado, fueraDePedidos>>

\* POST /api/pedidos/verificar-ubicacion, up to the await of the UPDATE
Arch_verificar_ubicacion_leer(s, id, pos) ==
    /\ SlotLibre(s)
    /\ IF ~Existe(id)
       THEN /\ last' = Resp("verificar-ubicacion", id, 404, "", NULL)
            /\ enVuelo' = enVuelo
       ELSE LET dv == DistanciaPlana(pos, Fila(id).ubicacionVenta)
                de == DistanciaPlana(pos, Fila(id).ubicacionEntrega)
            IN IF NuevoEstadoArch(Fila(id), pos) = ""
               THEN /\ last' = RespUbicacion(id, Fila(id).estado, pos, dv, de)
                    /\ enVuelo' = enVuelo
               ELSE /\ enVuelo' = [enVuelo EXCEPT ![s] =
                          [op |-> "verificar-ubicacion", pedidoId |-> id,
                           leido |-> Fila(id).estado,
                           nuevoEstado |-> NuevoEstadoArch(Fila(id), pos),
                           fase |-> "actualizar", pos |-> pos,
                           distanciaVenta |-> dv, distanciaEntrega |-> de,
                           firmado |-> FALSE]]
                    /\ last' = last
    /\ UNCHANGED <<pedidos, archivo>>
    /\ UNCHANGED <<actualizado, fueraDePedidos>>

\* the UPDATE with nuevoEstado, then the response
Arch_verificar_ubicacion_actualizar(s) ==
    /\ enVuelo[s].op = "verificar-ubicacion" /\ enVuelo[s].fase = "actualizar"
    /\ pedidos' = SetEstado(enVuelo[s].pedidoId, enVuelo[s].nuevoEstado)
    /\ enVuelo' = [enVuelo EXCEPT ![s] = Libre]
    /\ last' = RespUbicacion(enVuelo[s].pedidoId, enVuelo[s].nuevoEstado,
                             enVuelo[s].pos, enVuelo[s].distanciaVenta,
                             enVuelo[s].distanciaEntrega)
    /\ UNCHANGED archivo
    /\ UNCHANGED <<actualizado, fueraDePedidos>>

\* GET /api/pedidos/disponibles.  productos and the two locations are stored
\* as JSON.stringify wrote them and sent as JSON.parse reads them; on the
\* JSON values of the payloads the two are inverse, so a row holds the value.
\* SQLite scans the table by rowid, and with no DELETE the rowids grow with
\* the inserts: the rows come in insertion order.
Arch_disponibles ==
    /\ last' = RespCuerpo("disponibles", NULL, FilasConEstado("disponible"))
    /\ UNCHANGED <<pedidos, archivo, enVuelo>>
    /\ UNCHANGED <<actualizado, fueraDePedidos>>

\* GET /api/pedidos/:id
Arch_pedidos_get(id) ==
    /\ last' = IF Existe(id)
               THEN RespCuerpo("obtener", id, Fila(id))
               ELSE Resp("obtener", id, 404, "", NULL)
    /\ UNCHANGED <<pedidos, archivo, enVuelo>>
    /\ UNCHANGED <<actualizado, fueraDePedidos>>

NextArch ==
    \/ \E id \in PedidoIds, d \in 0..MaxDatos : Arch_pedidos_post(id, d)
    \/ \E id \in PedidoIds, m \in Mensajeros : Arch_asignar(id, m)
    \/ \E id \in PedidoIds, e \in estadosPermitidos \cup {"cancelado"} :
          Arch_actualizar_estado(id, e)
    \/ \E s \in Slots, id \in PedidoIds : Arch_entregado_leer(s, id)
    \/ \E s \in Slots : Arch_entregado_archivar(s)
    \/ \E s \in Slots : Arch_entregado_archivar_error(s)
    \/ \E s \in Slots : Arch_entregado_actualizar(s)
    \/ \E s \in Slots, id \in PedidoIds, pos \in Posiciones :
          Arch_verificar_ubicacion_leer(s, id, pos)
    \/ \E s \in Slots : Arch_verificar_ubicacion_actualizar(s)
    \/ Arch_disponibles
    \/ \E id \in PedidoIds : Arch_pedidos_get(id)

SpecArch == Init /\ [][NextArch]_vars

(***************************************************************************)
(* The third server as the courier application drives it: create, asignar, *)
(* actualizar-estado and verificar-ubicacion.                              *)
(***************************************************************************)
NextGeo ==
    \/ \E id \in PedidoIds, d \in 0..MaxDatos : Arch_pedidos_post(id, d)
    \/ \E id \in PedidoIds, m \in Mensajeros : Arch_asignar(id, m)
    \/ \E id \in PedidoIds, e \in estadosPermitidos \cup {"cancelado"} :
          Arch_actualizar_estado(id, e)
    \/ \E s \in Slots, id \in PedidoIds, pos \in Posiciones :
          Arch_verificar_ubicacion_leer(s, id, pos)
    \/ \E s \in Slots : Arch_verificar_ubicacion_actualizar(s)

SpecGeo == Init /\ [][NextGeo]_vars

(***************************************************************************)
(* src/backend-server.js: table pedidos in Supabase, JWT authentication.   *)
(* The table is created outside the repository; it is taken to have id as  *)
(* its primary key (every handler selects .eq('id', ..).single()) and      *)
(* 'disponible' as the default of estado (what /disponibles filters on).   *)
(***************************************************************************)
SIN_TOKEN == 0        \* no Authorization header
TOKEN_INVALIDO == -1  \* a token jwt.verify rejects
Tokens == {SIN_TOKEN, TOKEN_INVALIDO} \cup Mensajeros  \* u > 0: a valid JWT of user u

\* an authenticate that calls next() for every request
authenticateAbierto(tok) == TRUE

\* authenticate: TRUE when next() is called
authenticate(tok) == tok # SIN_TOKEN /\ tok # TOKEN_INVALIDO

\* the row inserted by POST /api/pedidos: the body spread as it is
FilaSupa(id, d, e, m) ==
    [id |-> id, productos |-> Productos(d),
     ubicacionVenta |-> UbicacionVenta(d), ubicacionEntrega |-> UbicacionEntrega(d),
     estado |-> IF e = AUSENTE THEN "disponible" ELSE e, mensajeroId |-> m]

\* POST /api/pedidos.  e, m: the estado and mensajero_id fields of the body.
\* the response r to a request that carried tok: a token is signed with
\* JWT_SECRET exactly when it is the JWT of a user
ConToken(tok, r) == [r EXCEPT !.firmado = tok \in Mensajeros]

Supa_pedidos_post(tok, id, d, e, m) ==
    /\ IF ~authenticate(tok)
       THEN /\ pedidos' = pedidos
            /\ last' = ConToken(tok, Resp("crear", id, 401, "", NULL))
       ELSE IF Existe(id)
       THEN /\ pedidos' = pedidos
            /\ last' = ConToken(tok, Resp("crear", id, 500, "", NULL))
       ELSE /\ pedidos' = Append(pedidos, FilaSupa(id, d, e, m))
            /\ last' = ConToken(tok, Resp("crear", id, 200, "", NULL))
    /\ UNCHANGED <<archivo, enVuelo>>
    /\ UNCHANGED <<actualizado, fueraDePedidos>>

\* .update({estado: 'en proceso', mensajero_id: ...}).eq('id', pedidoId)
AsignarSupa(id, m) ==
    [i \in 1..Len(pedidos) |->
        IF pedidos[i].id = id
        THEN [pedidos[i] EXCEPT !.estado = "en proceso", !.mensajeroId = m]
        ELSE pedidos[i]]

\* POST /api/pedidos/asignar: the courier is the user of the token
Supa_asignar(tok, id) ==
    /\ IF ~authenticate(tok)
       THEN /\ pedidos' = pedidos
            /\ last' = ConToken(tok, Resp("asignar", id, 401, "", NULL))
       ELSE /\ pedidos' = AsignarSupa(id, tok)
            /\ last' = ConToken(tok,
                          [Resp("asignar", id, IF Existe(id) THEN 200 ELSE 404, "", tok)
                              EXCEPT !.previo = EstadoPrevio(id)])
    /\ UNCHANGED <<archivo, enVuelo>>
    /\ UNCHANGED <<actualizado, fueraDePedidos>>

\* cos(lat) * 1e4: the latitude in units of 1e-4 radian, then the Taylor
\* series of the cosine up to the term x^8 / 8!
CosE4(lat) ==
    LET x == ((Abs(lat) \div 1000) * 17453) \div 100000
        x2 == (x * x) \div 10000
        x4 == (x2 * x2) \div 10000
        x6 == (x4 * x2) \div 10000
        x8 == (x4 * x4) \div 10000
    IN 10000 - x2 \div 2 + x4 \div 24 - x6 \div 720 + x8 \div 40320

\* t * k / 1e4 for 0 <= k <= 1e4, dividing first when the product would
\* leave 32 bits
EscalaE4(t, k) ==
    IF t <= 200000 THEN (t * k) \div 10000
    ELSE IF t <= 20000000 THEN ((t \div 100) * k) \div 100
    ELSE (t \div 10000) * k

\* R * pi / 180 for R = 6371e3: the metres of one degree of a great circle,
\* which is also the micro-metres of one micro-degree
METROS_POR_GRADO == 111195

\* a calcularDistancia that takes the cosine of the first latitude for both
calcularDistanciaUnCoseno(p, q) ==
    LET dlat == p[1] - q[1]
        dlng == p[2] - q[2]
        cc == (CosE4(p[1]) * CosE4(p[1])) \div 10000
    IN Isqrt(dlat * dlat + EscalaE4(dlng * dlng, cc), dlat, dlng) * METROS_POR_GRADO

\* calcularDistancia(lat1, lon1, lat2, lon2), in micro-metres.  The points
\* the model uses are less than 2 km apart, where sin(x/2) = x/2 and
\* atan2(sqrt(a), sqrt(1-a)) = sqrt(a) to 7 digits, so that
\*   R * c = R * sqrt(dphi^2 + cos(phi1) * cos(phi2) * dlambda^2).
\* The square root is taken on micro-degrees and rounded down (0.11 m).
calcularDistancia(p, q) ==
    LET dlat == p[1] - q[1]
        dlng == p[2] - q[2]
        cc == (CosE4(p[1]) * CosE4(q[1])) \div 10000
    IN Isqrt(dlat * dlat + EscalaE4(dlng * dlng, cc), dlat, dlng) * METROS_POR_GRADO

(***************************************************************************)
(* calcularDistancia alone: the two points are drawn from a grid of        *)
(* PasoRejilla micro-degrees around each latitude of LatitudesBase, and    *)
(* the function is called on them in both orders and on the first point    *)
(* with itself.                                                            *)
(***************************************************************************)
MaxRejilla == 2
PasoRejilla == 3000
LatitudesBase == {-33450000, 0, 23113600, 60000000}

PuntosDe(b) ==
    {<<b + PasoRejilla * i, UbicacionVenta(1)[2] + PasoRejilla * j>> :
        i \in 0..MaxRejilla, j \in 0..MaxRejilla}

InitDist ==
    /\ pedidos = <<>>
    /\ archivo = <<>>
    /\ enVuelo = [s \in Slots |-> Libre]
    /\ last = [op |-> "none"]
    /\ mensajeros = <<>>
    /\ reloj = 0
    /\ actualizado = FALSE
    /\ emitido = <<>>
    /\ \E b \in LatitudesBase : \E p1 \in PuntosDe(b), p2 \in PuntosDe(b) :
          medida = [p1 |-> p1, p2 |-> p2, hecho |-> FALSE,
                    d12 |-> 0, d21 |-> 0, d11 |-> 0]

Medir ==
    /\ ~medida.hecho
    /\ medida' = [medida EXCEPT !.hecho = TRUE,
                     !.d12 = calcularDistancia(medida.p1, medida.p2),
                     !.d21 = calcularDistancia(medida.p2, medida.p1),
                     !.d11 = calcularDistancia(medida.p1, medida.p1)]
    /\ UNCHANGED <<pedidos, archivo, enVuelo, last, mensajeros, reloj, actualizado,
                   emitido>>

NextDist == Medir

SpecDist == InitDist /\ [][NextDist]_vars

\* a verificar-ubicacion that moves an 'en proceso' order to 'en camino' when
\* the report is within the threshold of the pickup point
Supa_verificar_ubicacion_geocerca(id, pos) ==
    /\ IF Existe(id)
       THEN /\ pedidos' =
                 IF /\ Fila(id).estado = "en proceso"
                    /\ calcularDistancia(pos, Fila(id).ubicacionVenta)
                          <= 30 * 1000000
                 THEN SetEstado(id, "en camino")
                 ELSE pedidos
            /\ last' = RespUbicacion(id, Fila(id).estado, pos,
                          calcularDistancia(pos, Fila(id).ubicacionVenta),
                          calcularDistancia(pos, Fila(id).ubicacionEntrega))
       ELSE /\ pedidos' = pedidos
            /\ last' = Resp("verificar-ubicacion", id, 404, "", NULL)
    /\ UNCHANGED <<archivo, enVuelo>>
    /\ UNCHANGED <<actualizado, fueraDePedidos>>

\* POST /api/pedidos/verificar-ubicacion (no authentication, no write)
Supa_verificar_ubicacion(id, pos) ==
    /\ last' = IF Existe(id)
               THEN RespUbicacion(id, Fila(id).estado, pos,
                        calcularDistancia(pos, Fila(id).ubicacionVenta),
                        calcularDistancia(pos, Fila(id).ubicacionEntrega))
               ELSE Resp("verificar-ubicacion", id, 404, "", NULL)
    /\ UNCHANGED <<pedidos, archivo, enVuelo>>
    /\ UNCHANGED <<actualizado, fueraDePedidos>>

\* POST /api/pedidos/en-camino
Supa_en_camino(tok, id) ==
    /\ IF ~authenticate(tok)
       THEN /\ pedidos' = pedidos
            /\ last' = ConToken(tok, Resp("en-camino", id, 401, "", NULL))
       ELSE /\ pedidos' = SetEstado(id, "en camino")
            /\ last' = ConToken(tok, Resp("en-camino", id, 200, "", NULL))
    /\ UNCHANGED <<archivo, enVuelo>>
    /\ UNCHANGED <<actualizado, fueraDePedidos>>

\* POST /api/pedidos/entregado, up to the await of the update
Supa_entregado_leer(s, tok, id) ==
    /\ SlotLibre(s)
    /\ IF ~authenticate(tok)
       THEN /\ last' = ConToken(tok, Resp("entregado", id, 401, "", NULL))
            /\ enVuelo' = enVuelo
       ELSE IF ~Existe(id)
       THEN /\ last' = ConToken(tok, Resp("entregado", id, 404, "", NULL))
            /\ enVuelo' = enVuelo
       ELSE /\ enVuelo' = [enVuelo EXCEPT ![s] =
                  [Libre EXCEPT !.op = "entregado", !.pedidoId = id,
                                !.fase = "actualizar",
                                !.firmado = tok \in Mensajeros]]
            /\ last' = last
    /\ UNCHANGED <<pedidos, archivo>>
    /\ UNCHANGED <<actualizado, fueraDePedidos>>

\* .update({estado: 'entregado'}).eq('id', pedidoId), then the response
Supa_entregado_actualizar(s) ==
    /\ enVuelo[s].op = "entregado" /\ enVuelo[s].fase = "actualizar"
    /\ pedidos' = SetEstado(enVuelo[s].pedidoId, "entregado")
    /\ enVuelo' = [enVuelo EXCEPT ![s] = Libre]
    /\ last' = [Resp("entregado", enVuelo[s].pedidoId, 200, "", NULL)
                   EXCEPT !.firmado = enVuelo[s].firmado]
    /\ UNCHANGED archivo
    /\ UNCHANGED <<actualizado, fueraDePedidos>>

\* the sequences that hold the elements of filas, each once, in some order
Ordenes(filas) ==
    {[i \in 1..Len(filas) |-> filas[f[i]]] :
        f \in {g \in [1..Len(filas) -> 1..Len(filas)] :
                  \A i, j \in 1..Len(filas) : g[i] = g[j] => i = j}}

\* GET /api/pedidos/disponibles: .select('*').eq('estado', 'disponible') has
\* no .order(), and Postgres returns the rows of a query without ORDER BY in
\* the order of its scan of the heap (a row inserted into space freed by an
\* updated row comes before older rows): any order can be sent.
Supa_disponibles ==
    /\ \E filas \in Ordenes(FilasConEstado("disponible")) :
          last' = RespCuerpo("disponibles", NULL, filas)
    /\ UNCHANGED <<pedidos, archivo, enVuelo>>
    /\ UNCHANGED <<actualizado, fueraDePedidos>>

\* a GET /api/pedidos/:id that sends the order as it was inserted
Supa_pedidos_get_inicial(id) ==
    /\ last' = IF Existe(id)
               THEN RespCuerpo("obtener", id,
                        [Fila(id) EXCEPT !.estado = "disponible", !.mensajeroId = NULL])
               ELSE Resp("obtener", id, 404, "", NULL)
    /\ UNCHANGED <<pedidos, archivo, enVuelo>>
    /\ UNCHANGED <<actualizado, fueraDePedidos>>

\* GET /api/pedidos/:id
Supa_pedidos_get(id) ==
    /\ last' = IF Existe(id)
               THEN RespCuerpo("obtener", id, Fila(id))
               ELSE Resp("obtener", id, 404, "", NULL)
    /\ UNCHANGED <<pedidos, archivo, enVuelo>>
    /\ UNCHANGED <<actualizado, fueraDePedidos>>

NextSupa ==
    \/ \E tok \in Tokens, id \in PedidoIds :
          \* the body of a request that is rejected is not read: one body stands for all
          LET leido == authenticate(tok) /\ ~Existe(id) IN
          \E d \in IF leido THEN Datos ELSE {1},
             e \in IF leido THEN Estados \cup {AUSENTE} ELSE {AUSENTE},
             m \in IF leido THEN {NULL} \cup Mensajeros ELSE {NULL} :
             Supa_pedidos_post(tok, id, d, e, m)
    \/ \E tok \in Tokens, id \in PedidoIds : Supa_asignar(tok, id)
    \/ \E id \in PedidoIds, pos \in Posiciones : Supa_verificar_ubicacion(id, pos)
    \/ \E tok \in Tokens, id \in PedidoIds : Supa_en_camino(tok, id)
    \/ \E s \in Slots, tok \in Tokens, id \in PedidoIds : Supa_entregado_leer(s, tok, id)
    \/ \E s \in Slots : Supa_entregado_actualizar(s)
    \/ Supa_disponibles
    \/ \E id \in PedidoIds : Supa_pedidos_get(id)

SpecSupa == Init /\ [][NextSupa]_vars

(***************************************************************************)
(* src/unnamed/part_000 (and the first server of part_002): the orders are *)
(* the properties of the object pedidos, keyed by the id of the body.      *)
(***************************************************************************)
\* the body as it is stored; a body carries estado / mensajeroId only if
\* the client put them there
FilaMem(id, d, e, m) ==
    [id |-> id, productos |-> Productos(d),
     ubicacionVenta |-> UbicacionVenta(d), ubicacionEntrega |-> UbicacionEntrega(d),
     estado |-> e, mensajeroId |-> m]

\* pedidos[pedido.id] = pedido: an existing key keeps its place
PonerMem(id, fila) ==
    IF Existe(id)
    THEN [i \in 1..Len(pedidos) |-> IF pedidos[i].id = id THEN fila ELSE pedidos[i]]
    ELSE Append(pedidos, fila)

\* POST /api/pedidos.  id = NULL is a body without id.
Mem_pedidos_post(id, d, e, m) ==
    /\ IF id = NULL
       THEN /\ pedidos' = pedidos
            /\ last' = Resp("crear", id, 400, "", NULL)
       ELSE /\ pedidos' = PonerMem(id, FilaMem(id, d, e, m))
            /\ last' = Resp("crear", id, 201, "", NULL)
    /\ UNCHANGED <<archivo, enVuelo>>
    /\ UNCHANGED <<actualizado, fueraDePedidos>>

\* GET /api/pedidos/:id
Mem_pedidos_get(id) ==
    /\ last' = IF Existe(id)
               THEN [Resp("obtener", id, 200, Fila(id).estado, Fila(id).mensajeroId)
                        EXCEPT !.cuerpo = Fila(id)]
               ELSE Resp("obtener", id, 404, "", NULL)
    /\ UNCHANGED <<pedidos, archivo, enVuelo>>
    /\ UNCHANGED <<actualizado, fueraDePedidos>>

NextMem ==
    \/ \E id \in {NULL} \cup PedidoIds :
          \* the body of a request without id is not stored: one body stands for all
          \E d \in IF id # NULL THEN Datos ELSE {1},
             e \in IF id # NULL THEN Estados \cup {AUSENTE} ELSE {AUSENTE},
             m \in IF id # NULL THEN {NULL} \cup Mensajeros ELSE {NULL} :
             Mem_pedidos_post(id, d, e, m)
    \/ \E id \in PedidoIds : Mem_pedidos_get(id)

SpecMem == Init /\ [][NextMem]_vars

(***************************************************************************)
(* The courier login of the third server (src/unnamed/part_002, lines      *)
(* 723-802): SQLite table mensajeros (telefono TEXT PRIMARY KEY, codigo,   *)
(* expiracion, token).  The handlers of the pedidos endpoints never touch  *)
(* this table, and these two never touch pedidos.  The server of part_001  *)
(* (119-179) and the second server of part_002 (222-290) differ in the     *)
(* status of the errors and have no check of the body.                     *)
(***************************************************************************)
Telefonos == 1..MaxTelefonos
TELEFONO_INVALIDO == 0   \* no telefono in the body
Codigos == 1..MaxCodigos
SIN_CODIGO == 0          \* no codigo in the body
SIN_TOKEN_SESION == <<>> \* the column token is NULL

VIGENCIA == 2            \* 10 * 60 * 1000 ms, in units of 5 minutes

SIN_FILA == [existe |-> FALSE, codigo |-> 0, expiracion |-> 0,
             token |-> SIN_TOKEN_SESION]

\* the response of a mensajeros endpoint: codigo is the code of the body
\* ({success, codigo} of solicitar-codigo: the code sent), token the token of
\* {success, token}
RespCodigo(op, t, c, status, error, token) ==
    [op |-> op, telefono |-> t, codigo |-> c, status |-> status,
     error |-> error, token |-> token]

\* a suspended verificar-codigo holds telefono and the token it has built
LibreCodigo ==
    [op |-> "libre", telefono |-> 0, codigo |-> 0, token |-> SIN_TOKEN_SESION]

InitCodigo ==
    /\ pedidos = <<>>
    /\ archivo = <<>>
    /\ enVuelo = [s \in Slots |-> LibreCodigo]
    /\ last = RespCodigo("none", 0, 0, 0, "", SIN_TOKEN_SESION)
    /\ mensajeros = [t \in Telefonos |-> SIN_FILA]
    /\ reloj = 0
    /\ actualizado = FALSE
    /\ medida = <<>>
    /\ emitido = [t \in Telefonos |->
                    [ultimo |-> SIN_CODIGO, anterior |-> SIN_CODIGO]]

\* time passes
Tic ==
    /\ reloj < MaxReloj
    /\ reloj' = reloj + 1
    /\ UNCHANGED <<pedidos, archivo, enVuelo, last, mensajeros, actualizado,
                   medida, emitido>>

\* a solicitar-codigo whose statement keeps the token of the row it finds
Cod_solicitar_codigo_conserva_token(t, c) ==
    /\ IF t = TELEFONO_INVALIDO
       THEN /\ last' = RespCodigo("solicitar-codigo", t, SIN_CODIGO, 400,
                                  "Número de teléfono inválido", SIN_TOKEN_SESION)
            /\ UNCHANGED <<mensajeros, emitido>>
       ELSE /\ mensajeros' = [mensajeros EXCEPT ![t] =
                  [existe |-> TRUE, codigo |-> c,
                   expiracion |-> reloj + VIGENCIA,
                   token |-> mensajeros[t].token]]
            /\ emitido' = [emitido EXCEPT ![t] =
                              [ultimo |-> c, anterior |-> emitido[t].ultimo]]
            /\ last' = RespCodigo("solicitar-codigo", t, c, 200, "",
                                  SIN_TOKEN_SESION)
    /\ UNCHANGED <<pedidos, archivo, enVuelo, reloj, actualizado, medida>>

\* POST /api/mensajeros/solicitar-codigo; c is the code Math.random() gives.
\* INSERT OR REPLACE deletes the row of the telefono and inserts the three
\* columns: token is NULL in the new row.
Cod_solicitar_codigo(t, c) ==
    /\ IF t = TELEFONO_INVALIDO
       THEN /\ last' = RespCodigo("solicitar-codigo", t, SIN_CODIGO, 400,
                                  "Número de teléfono inválido", SIN_TOKEN_SESION)
            /\ UNCHANGED <<mensajeros, emitido>>
       ELSE /\ mensajeros' = [mensajeros EXCEPT ![t] =
                  [existe |-> TRUE, codigo |-> c,
                   expiracion |-> reloj + VIGENCIA,
                   token |-> SIN_TOKEN_SESION]]
            /\ emitido' = [emitido EXCEPT ![t] =
                              [ultimo |-> c, anterior |-> emitido[t].ultimo]]
            /\ last' = RespCodigo("solicitar-codigo", t, c, 200, "",
                                  SIN_TOKEN_SESION)
    /\ UNCHANGED <<pedidos, archivo, enVuelo, reloj, actualizado, medida>>

\* the error of verificar-codigo on the row of the SELECT, "" when the
\* checks pass
ErrorVerificar(t, c) ==
    IF t = TELEFONO_INVALIDO \/ c = SIN_CODIGO THEN "Complete todos los campos"
    ELSE IF ~mensajeros[t].existe THEN "Teléfono no registrado"
    ELSE IF mensajeros[t].codigo # c THEN "Código incorrecto"
    ELSE IF reloj > mensajeros[t].expiracion THEN "Código expirado"
    ELSE ""

StatusVerificar(error) ==
    CASE error = "Complete todos los campos" -> 400
      [] error = "Teléfono no registrado"    -> 404
      [] OTHER                               -> 401

\* a verificar-codigo that accepts a code after its expiracion
Cod_verificar_codigo_leer_sin_expiracion(s, t, c) ==
    /\ enVuelo[s] = LibreCodigo
    /\ IF ErrorVerificar(t, c) \notin {"", "Código expirado"}
       THEN /\ last' = RespCodigo("verificar-codigo", t, c,
                           StatusVerificar(ErrorVerificar(t, c)),
                           ErrorVerificar(t, c), SIN_TOKEN_SESION)
            /\ enVuelo' = enVuelo
       ELSE /\ enVuelo' = [enVuelo EXCEPT ![s] =
                  [op |-> "verificar-codigo", telefono |-> t, codigo |-> c,
                   token |-> <<reloj>>]]
            /\ last' = last
    /\ UNCHANGED <<pedidos, archivo, mensajeros, reloj, actualizado, medida,
                   emitido>>

\* POST /api/mensajeros/verificar-codigo: the check of the body, the SELECT
\* and its callback, up to db.run(UPDATE ..).  The token is
\* `token-${Date.now()}-${Math.random()..}`: the instant it was built at
\* (no handler reads a token: the random suffix is left out).
Cod_verificar_codigo_leer(s, t, c) ==
    /\ enVuelo[s] = LibreCodigo
    /\ IF ErrorVerificar(t, c) # ""
       THEN /\ last' = RespCodigo("verificar-codigo", t, c,
                           StatusVerificar(ErrorVerificar(t, c)),
                           ErrorVerificar(t, c), SIN_TOKEN_SESION)
            /\ enVuelo' = enVuelo
       ELSE /\ enVuelo' = [enVuelo EXCEPT ![s] =
                  [op |-> "verificar-codigo", telefono |-> t, codigo |-> c,
                   token |-> <<reloj>>]]
            /\ last' = last
    /\ UNCHANGED <<pedidos, archivo, mensajeros, reloj, actualizado, medida,
                   emitido>>

\* UPDATE mensajeros SET token = ? WHERE telefono = ?, then {success, token}
Cod_verificar_codigo_actualizar(s) ==
    /\ enVuelo[s].op = "verificar-codigo"
    /\ mensajeros' = [mensajeros EXCEPT ![enVuelo[s].telefono] =
          IF @.existe THEN [@ EXCEPT !.token = enVuelo[s].token] ELSE @]
    /\ last' = RespCodigo("verificar-codigo", enVuelo[s].telefono,
                          enVuelo[s].codigo, 200, "", enVuelo[s].token)
    /\ enVuelo' = [enVuelo EXCEPT ![s] = LibreCodigo]
    /\ UNCHANGED <<pedidos, archivo, reloj, actualizado, medida, emitido>>

NextCodigo ==
    \/ Tic
    \/ \E t \in Telefonos \cup {TELEFONO_INVALIDO}, c \in Codigos :
          Cod_solicitar_codigo(t, c)
    \/ \E s \in Slots, t \in Telefonos \cup {TELEFONO_INVALIDO},
          c \in Codigos \cup {SIN_CODIGO} : Cod_verificar_codigo_leer(s, t, c)
    \/ \E s \in Slots : Cod_verificar_codigo_actualizar(s)

SpecCodigo == InitCodigo /\ [][NextCodigo]_vars

(***************************************************************************)
(* Properties of the order lifecycle.                                      *)
(***************************************************************************)
\* The step sends a response.  A handler answers in the step in which it
\* ends: the step leaves the requests in flight as they were or takes one
\* out, whereas a step that suspends a request or moves it to its next await
\* leaves a request in its slot.  (A step that changes nothing is no step.)
Respondio ==
    \/ last' # last
    \/ enVuelo' = enVuelo
    \/ \E s \in Slots : enVuelo[s] # Libre /\ enVuelo'[s] = Libre

\* the response of the step answers request op on order id, which exists
Atiende(op, id) == Respondio /\ last'.op = op /\ last'.pedidoId = id /\ Existe(id)

Exito(r) == r.status \in {200, 201}

EstadoDe(id) == Fila(id).estado
MensajeroDe(id) == Fila(id).mensajeroId

\* C1: the estado of an order never moves backward in
\* Available -> Assigned -> InTransit -> Delivered, and an order that is
\* 'entregado' keeps that estado whatever operation follows.
C1_NuncaRetrocede ==
    [][\A id \in PedidoIds :
          Existe(id) =>
             /\ Existe(id)'
             /\ Rango(EstadoDe(id)') >= Rango(EstadoDe(id))
             /\ (EstadoDe(id) = "entregado" => EstadoDe(id)' = "entregado")]_vars

\* C2: no step makes an order skip a state: the estado of an order advances
\* by at most one position of Available -> Assigned -> InTransit -> Delivered.
C2_SinSaltos ==
    [][\A id \in PedidoIds :
          Existe(id) => Rango(EstadoDe(id)') <= Rango(EstadoDe(id)) + 1]_vars

\* C3: of two asignar calls by different couriers on the same Available
\* order, with no other response in between, exactly one succeeds: once the
\* first has been answered with success, the second is refused and the order
\* keeps the courier of the first.
C3_UnSoloGanador ==
    [][\A id \in PedidoIds :
          (/\ last.op = "asignar" /\ Exito(last) /\ last.previo = "disponible"
           /\ last.pedidoId = id
           /\ Atiende("asignar", id)
           /\ last.mensajeroId \in Mensajeros /\ last'.mensajeroId \in Mensajeros
           /\ last'.mensajeroId # last.mensajeroId)
          => (~Exito(last') /\ MensajeroDe(id)' = last.mensajeroId)]_vars

\* C4: asignar on an order whose estado is not 'disponible' is refused and
\* leaves the estado and the courier of the order as they were.
C4_AsignarNoDisponible ==
    [][\A id \in PedidoIds :
          (Atiende("asignar", id) /\ EstadoDe(id) # "disponible")
          => (/\ ~Exito(last')
              /\ EstadoDe(id)' = EstadoDe(id)
              /\ MensajeroDe(id)' = MensajeroDe(id))]_vars

\* C5: in every reachable state an order has no courier if and only if its
\* estado is 'disponible'.
C5_MensajeroSiiNoDisponible ==
    \A i \in 1..Len(pedidos) :
        (pedidos[i].mensajeroId = NULL) <=> (pedidos[i].estado = "disponible")

\* C6: creating an order with an id that already exists is refused and leaves
\* the stored orders as they were.
C6_IdDuplicado ==
    [][\A id \in PedidoIds :
          Atiende("crear", id) => (~Exito(last') /\ pedidos' = pedidos)]_vars

\* C7: a create that is accepted for an id that does not exist yet stores an
\* order whose estado is 'disponible' and that has no courier, whatever the
\* body of the request carries.
C7_CreadoDisponible ==
    [][\A id \in PedidoIds :
          (/\ Respondio /\ last'.op = "crear" /\ Exito(last')
           /\ last'.pedidoId = id /\ ~Existe(id))
          => (/\ Existe(id)'
              /\ EstadoDe(id)' = "disponible"
              /\ MensajeroDe(id)' = NULL)]_vars

\* C8: en-camino on an existing order sets the estado to 'en camino' when the
\* order is Assigned; otherwise it is refused and leaves the estado as it was.
C8_EnCaminoSoloAsignado ==
    [][\A id \in PedidoIds :
          (Atiende("en-camino", id) /\ last'.status # 401)
          => IF Rango(EstadoDe(id)) = 1
             THEN EstadoDe(id)' = "en camino"
             ELSE ~Exito(last') /\ EstadoDe(id)' = EstadoDe(id)]_vars

\* C9: entregado on an existing order sets the estado to 'entregado' when the
\* order is InTransit; otherwise it is refused and leaves the estado as it was.
C9_EntregadoSoloEnCamino ==
    [][\A id \in PedidoIds :
          (Atiende("entregado", id) /\ last'.status # 401)
          => IF EstadoDe(id) = "en camino"
             THEN EstadoDe(id)' = "entregado"
             ELSE ~Exito(last') /\ EstadoDe(id)' = EstadoDe(id)]_vars

\* C10: an entregado request answered on an order that is InTransit leaves the
\* order 'entregado', whether the insert into pedidos_entregados succeeded or
\* failed.
C10_ArchivoNoBloquea ==
    [][\A id \in PedidoIds :
          (Atiende("entregado", id) /\ EstadoDe(id) = "en camino")
          => EstadoDe(id)' = "entregado"]_vars

(***************************************************************************)
(* Properties of the geofence (verificar-ubicacion).                       *)
(***************************************************************************)
MARGEN_METROS == 30   \* the arrival threshold, in metres

\* p is within the arrival threshold of q: at most 30 m of great circle
DentroUmbral(p, q) == calcularDistancia(p, q) <= MARGEN_METROS * 1000000

VentaDe(id) == Fila(id).ubicacionVenta
EntregaDe(id) == Fila(id).ubicacionEntrega

\* C11: a verificar-ubicacion request answered on an order that is Assigned,
\* from a position within 30 m of the pickup point of the order (the pickup
\* point itself included), leaves the order 'en camino'.
C11_LlegadaAVenta ==
    [][\A id \in PedidoIds :
          (/\ Atiende("verificar-ubicacion", id)
           /\ Rango(EstadoDe(id)) = 1
           /\ DentroUmbral(last'.pos, VentaDe(id)))
          => EstadoDe(id)' = "en camino"]_vars

\* C12: a verificar-ubicacion request answered on an order that is
\* 'en camino', from a position within 30 m of the drop-off point of the order
\* (the drop-off point itself included), leaves the order 'entregado'.
C12_LlegadaAEntrega ==
    [][\A id \in PedidoIds :
          (/\ Atiende("verificar-ubicacion", id)
           /\ EstadoDe(id) = "en camino"
           /\ DentroUmbral(last'.pos, EntregaDe(id)))
          => EstadoDe(id)' = "entregado"]_vars

\* C13: a verificar-ubicacion request answered from a position more than 30 m
\* away from both the pickup and the drop-off point of the order changes
\* nothing in the store, whatever the estado of the order.
C13_LejosNoCambia ==
    [][\A id \in PedidoIds :
          (/\ Atiende("verificar-ubicacion", id)
           /\ ~DentroUmbral(last'.pos, VentaDe(id))
           /\ ~DentroUmbral(last'.pos, EntregaDe(id)))
          => pedidos' = pedidos]_vars

\* C14: a verificar-ubicacion request never writes over an estado that another
\* request wrote after it read the order: when its UPDATE runs, the order
\* still has the estado the request read.
C14_SinEscrituraPerdida ==
    [][\A s \in Slots :
          (/\ enVuelo[s].op = "verificar-ubicacion"
           /\ enVuelo[s].fase = "actualizar"
           /\ enVuelo'[s] = Libre)
          => EstadoDe(enVuelo[s].pedidoId) = enVuelo[s].leido]_vars

\* C15: a verificar-ubicacion request answered with success carries the estado
\* the order has after the request, and the great-circle distances in metres
\* from the reported position to the pickup and to the drop-off point.
C15_RespuestaUbicacion ==
    [][\A id \in PedidoIds :
          (Atiende("verificar-ubicacion", id) /\ Exito(last'))
          => (/\ last'.estado = EstadoDe(id)'
              /\ last'.distanciaVenta = calcularDistancia(last'.pos, VentaDe(id))
              /\ last'.distanciaEntrega = calcularDistancia(last'.pos, EntregaDe(id)))]_vars

\* C16: asignar, en-camino and entregado on an id that no order has are
\* answered 404 (once the request is authenticated) and leave the store as it
\* was.
C16_IdDesconocido ==
    [][\A id \in PedidoIds :
          (/\ Respondio
           /\ last'.op \in {"asignar", "en-camino", "entregado"}
           /\ last'.pedidoId = id
           /\ ~Existe(id)
           /\ last'.status # 401)
          => (last'.status = 404 /\ pedidos' = pedidos)]_vars

(***************************************************************************)
(* Properties of the queries and of the identity of an order.              *)
(***************************************************************************)
\* C17: GET /api/pedidos/:id on an id that no order has is answered 404; on
\* the id of an order it is answered with the order as it is stored at that
\* moment: its id, estado, courier, productos and the two locations.
C17_ObtenerPedido ==
    [][\A id \in PedidoIds :
          (Respondio /\ last'.op = "obtener" /\ last'.pedidoId = id)
          => IF Existe(id)
             THEN /\ Exito(last')
                  /\ last'.cuerpo.id = id
                  /\ last'.cuerpo.estado = EstadoDe(id)
                  /\ last'.cuerpo.mensajeroId = MensajeroDe(id)
                  /\ last'.cuerpo.productos = Fila(id).productos
                  /\ last'.cuerpo.ubicacionVenta = VentaDe(id)
                  /\ last'.cuerpo.ubicacionEntrega = EntregaDe(id)
             ELSE last'.status = 404]_vars

\* a GET answered with an order that is delivered and has a courier
C17_Testigo ==
    /\ last.op = "obtener" /\ last.status = 200
    /\ last.cuerpo.estado = "entregado"
    /\ last.cuerpo.mensajeroId \in Mensajeros

\* C18: GET /api/pedidos/disponibles is answered with the orders whose estado
\* is 'disponible', all of them and no other, each once and as it is stored,
\* an order that was inserted earlier coming before one inserted later.
C18_DisponiblesEnOrden ==
    [][(Respondio /\ last'.op = "disponibles")
       => LET filas == last'.cuerpo IN
          /\ Exito(last')
          /\ \A i \in 1..Len(filas) :
                /\ Existe(filas[i].id)
                /\ filas[i] = Fila(filas[i].id)
                /\ filas[i].estado = "disponible"
          /\ \A id \in PedidoIds :
                (Existe(id) /\ EstadoDe(id) = "disponible")
                => \E i \in 1..Len(filas) : filas[i].id = id
          /\ \A i, j \in 1..Len(filas) :
                i < j => Pos(filas[i].id) < Pos(filas[j].id)]_vars

\* C19: an order is never removed and never changes its id: after every step
\* each row is where it was, with the id it had.
C19_NuncaBorrado ==
    [][\A i \in 1..Len(pedidos) :
          i <= Len(pedidos') /\ pedidos'[i].id = pedidos[i].id]_vars

\* every order is delivered and has a courier, and a GET of the one that was
\* inserted first still finds it
C19_Testigo ==
    /\ Len(pedidos) = MaxPedidos
    /\ \A i \in 1..Len(pedidos) :
          pedidos[i].estado = "entregado" /\ pedidos[i].mensajeroId \in Mensajeros
    /\ last.op = "obtener" /\ last.status = 200 /\ last.cuerpo.id = pedidos[1].id

\* C20: the geofence decides on the great-circle distance in metres with the
\* threshold of 30 m: a verificar-ubicacion request answered on an order that
\* is 'en proceso' moves it to 'en camino' exactly when the position is within
\* 30 m of the pickup point, and one answered on an order that is 'en camino'
\* moves it to 'entregado' exactly when the position is within 30 m of the
\* drop-off point.
C20_DecisionHaversine ==
    [][\A id \in PedidoIds :
          Atiende("verificar-ubicacion", id)
          => (/\ EstadoDe(id) = "en proceso"
                    => (EstadoDe(id)' = "en camino"
                          <=> DentroUmbral(last'.pos, VentaDe(id)))
              /\ EstadoDe(id) = "en camino"
                    => (EstadoDe(id)' = "entregado"
                          <=> DentroUmbral(last'.pos, EntregaDe(id))))]_vars

(***************************************************************************)
(* Properties of calcularDistancia.                                        *)
(***************************************************************************)
\* C21: the distance from the first point to the second and the distance from
\* the second to the first differ by at most 1e-6 m (one micro-metre), and the
\* distance from a point to itself is 0.
C21_DistanciaSimetrica ==
    medida.hecho =>
        /\ Abs(medida.d12 - medida.d21) <= 1
        /\ medida.d11 = 0

\* the function has been called on two points that differ in latitude and in
\* longitude
C21_Testigo ==
    /\ medida.hecho
    /\ medida.p1[1] # medida.p2[1] /\ medida.p1[2] # medida.p2[2]
    /\ medida.d12 > 0

(***************************************************************************)
(* Properties of verificar-ubicacion in the third server.                  *)
(***************************************************************************)
\* C22: as long as no actualizar-estado request has been served, a
\* verificar-ubicacion request changes no estado: what create and asignar
\* write ('disponible', 'asignado') is not what the geofence reads.
C22_SinActualizarNoAvanza ==
    [][(~actualizado' /\ Respondio /\ last'.op = "verificar-ubicacion")
       => pedidos' = pedidos]_vars

\* no actualizar-estado so far, and a report from the pickup point of an
\* order that asignar has given to a courier has been answered
C22_Testigo ==
    /\ ~actualizado
    /\ last.op = "verificar-ubicacion" /\ last.status = 200
    /\ last.estado = "asignado" /\ last.distanciaVenta = 0
    /\ Existe(last.pedidoId)
    /\ Fila(last.pedidoId).estado = "asignado"
    /\ Fila(last.pedidoId).mensajeroId \in Mensajeros

\* C23: the UPDATE of a verificar-ubicacion request moves the order one step
\* from the estado the request read: read as 'en proceso' it is written
\* 'en camino', never 'entregado', also when the position is within the margin
\* of both the pickup and the drop-off point; read as 'en camino' it is
\* written 'entregado'.
C23_UnPasoPorLlamada ==
    [][\A s \in Slots, id \in PedidoIds :
          (/\ enVuelo[s].op = "verificar-ubicacion"
           /\ enVuelo[s].fase = "actualizar"
           /\ enVuelo[s].pedidoId = id
           /\ enVuelo'[s] = Libre)
          => (/\ enVuelo[s].leido \in {"en proceso", "en camino"}
              /\ Rango(EstadoDe(id)') = Rango(enVuelo[s].leido) + 1
              /\ last'.estado = EstadoDe(id)')]_vars

\* a report from within the margin of both points of an order has moved the
\* order to 'en camino'
C23_Testigo ==
    /\ last.op = "verificar-ubicacion" /\ last.status = 200
    /\ last.estado = "en camino"
    /\ Existe(last.pedidoId)
    /\ Fila(last.pedidoId).estado = "en camino"
    /\ DentroMargenPlano(last.pos, Fila(last.pedidoId).ubicacionVenta)
    /\ DentroMargenPlano(last.pos, Fila(last.pedidoId).ubicacionEntrega)

\* C27: a verificar-ubicacion request on an id that no order has is answered
\* 404 and leaves the store as it was: no order is created, none is changed.
C27_UbicacionSinPedido ==
    [][\A id \in PedidoIds :
          (/\ Respondio /\ last'.op = "verificar-ubicacion"
           /\ last'.pedidoId = id /\ ~Existe(id))
          => (last'.status = 404 /\ pedidos' = pedidos)]_vars

\* a report on an id that no order has was answered 404 while another order
\* is stored
C27_Testigo ==
    /\ last.op = "verificar-ubicacion" /\ last.status = 404
    /\ ~Existe(last.pedidoId)
    /\ Len(pedidos) > 0

\* C24: on the Supabase server a verificar-ubicacion request writes nothing:
\* it leaves every stored order, and the archive, as they were, and for an
\* order that exists it answers 200 with the estado that is stored.
C24_UbicacionSoloLee ==
    [][\A id \in PedidoIds :
          (Respondio /\ last'.op = "verificar-ubicacion" /\ last'.pedidoId = id)
          => (/\ pedidos' = pedidos
              /\ archivo' = archivo
              /\ Existe(id) => (/\ last'.status = 200
                                /\ last'.estado = EstadoDe(id)
                                /\ last'.estado = EstadoDe(id)'))]_vars

\* a report from the pickup point of an order that is 'en proceso' was
\* answered with 'en proceso', and the order still is 'en proceso'
C24_Testigo ==
    /\ last.op = "verificar-ubicacion" /\ last.status = 200
    /\ last.estado = "en proceso" /\ last.distanciaVenta = 0
    /\ Existe(last.pedidoId)
    /\ Fila(last.pedidoId).estado = "en proceso"
    /\ last.pos = Fila(last.pedidoId).ubicacionVenta

\* C25: on the third server every stored estado is one of the five values at
\* all times, and an actualizar-estado request that asks for any other value
\* is answered 400 and leaves the stored orders as they were.
C25_EstadosPermitidos ==
    /\ [](\A i \in 1..Len(pedidos) : pedidos[i].estado \in Estados)
    /\ [][(/\ Respondio /\ last'.op = "actualizar-estado"
           /\ last'.estado \notin Estados)
          => (last'.status = 400 /\ pedidos' = pedidos)]_vars

\* an actualizar-estado request that asked for 'cancelado' on a stored order
\* was answered 400
C25_Testigo ==
    /\ last.op = "actualizar-estado" /\ last.status = 400
    /\ last.estado = "cancelado"
    /\ Existe(last.pedidoId)
    /\ Fila(last.pedidoId).estado \in Estados

\* C28: on the Supabase server a create, asignar, en-camino or entregado
\* request whose token is missing or not signed with JWT_SECRET is answered
\* 401 and leaves the stored orders as they were; every step that changes
\* the stored orders answers a request whose token is signed.
C28_SoloConToken ==
    [][/\ (/\ Respondio
           /\ last'.op \in {"crear", "asignar", "en-camino", "entregado"}
           /\ ~last'.firmado)
          => (last'.status = 401 /\ pedidos' = pedidos)
       /\ (pedidos' # pedidos)
          => (/\ Respondio
              /\ last'.op \in {"crear", "asignar", "en-camino", "entregado"}
              /\ last'.firmado)]_vars

\* an asignar request without a signed token on an order that is
\* 'disponible' was answered 401, and the order still is 'disponible'
C28_Testigo ==
    /\ last.op = "asignar" /\ last.status = 401 /\ ~last.firmado
    /\ Existe(last.pedidoId)
    /\ Fila(last.pedidoId).estado = "disponible"
    /\ Fila(last.pedidoId).mensajeroId = NULL

\* the step belongs to a request on order id: it answers one, or it starts or
\* resumes a suspended one
PasoSobre(id) ==
    \/ Respondio /\ last'.pedidoId = id
    \/ \E s \in Slots :
          /\ enVuelo'[s] # enVuelo[s]
          /\ (enVuelo[s].pedidoId = id \/ enVuelo'[s].pedidoId = id)

\* C26: a step of a request on one order leaves every other stored order as
\* it was: estado, courier, locations and products, whatever requests are
\* suspended at that moment.
C26_OtrosPedidosIntactos ==
    [][\A otro \in PedidoIds :
          (Existe(otro) /\ ~PasoSobre(otro))
          => (Existe(otro)' /\ Fila(otro)' = Fila(otro))]_vars

\* an actualizar-estado request has set one order to 'entregado' while the
\* other stored order is 'disponible' and has no courier
C26_Testigo ==
    /\ last.op = "actualizar-estado" /\ last.status = 200
    /\ last.estado = "entregado"
    /\ Existe(last.pedidoId)
    /\ Fila(last.pedidoId).estado = "entregado"
    /\ \E otro \in PedidoIds :
          /\ otro # last.pedidoId /\ Existe(otro)
          /\ Fila(otro).estado = "disponible"
          /\ Fila(otro).mensajeroId = NULL

(***************************************************************************)
(* Properties of the courier login.                                        *)
(***************************************************************************)
\* the step is the one in which the request suspended in slot s stores its
\* token and is answered
EmiteToken(s) == enVuelo[s].op = "verificar-codigo" /\ enVuelo'[s] = LibreCodigo

\* the step is the one in which a verificar-codigo request passes its checks
PasaVerificacion(s) ==
    enVuelo[s] = LibreCodigo /\ enVuelo'[s].op = "verificar-codigo"

\* the step answers a request of endpoint op without suspending it
RespondeCodigo(op) ==
    last'.op = op /\ enVuelo' = enVuelo /\ reloj' = reloj

\* C29: a verificar-codigo request goes on to a session token only if a
\* code was requested for its telefono, the code of the body is the stored
\* one and the clock is not past the stored expiracion, which is the instant
\* of the request of the code plus ten minutes; the token is then stored for
\* that telefono alone and sent.  A request answered with an error leaves
\* the table as it was, and no other step of verificar-codigo changes a
\* stored token.
C29_TokenSoloConCodigo ==
    [][/\ \A s \in Slots, t \in Telefonos \cup {TELEFONO_INVALIDO} :
             (PasaVerificacion(s) /\ enVuelo'[s].telefono = t)
             => (/\ t \in Telefonos
                 /\ emitido[t].ultimo # SIN_CODIGO
                 /\ mensajeros[t].existe
                 /\ mensajeros[t].codigo = enVuelo'[s].codigo
                 /\ reloj <= mensajeros[t].expiracion
                 /\ mensajeros' = mensajeros)
       /\ \A s \in Slots, t \in Telefonos :
             (EmiteToken(s) /\ enVuelo[s].telefono = t)
             => (/\ last'.status = 200 /\ last'.telefono = t
                 /\ last'.token = enVuelo[s].token
                 /\ mensajeros'[t].token = enVuelo[s].token
                 /\ \A u \in Telefonos \ {t} : mensajeros'[u] = mensajeros[u])
       /\ (RespondeCodigo("verificar-codigo") /\ last'.status # 200)
             => mensajeros' = mensajeros
       /\ (RespondeCodigo("verificar-codigo") /\ last'.status = 200)
             => last' = last
       /\ \A t \in Telefonos :
             (/\ RespondeCodigo("solicitar-codigo")
              /\ last'.status = 200 /\ last'.telefono = t)
             => mensajeros'[t].expiracion = reloj + VIGENCIA
       /\ \A t \in Telefonos :
             (mensajeros'[t].token # mensajeros[t].token)
             => \/ \E s \in Slots : EmiteToken(s) /\ enVuelo[s].telefono = t
                \/ /\ RespondeCodigo("solicitar-codigo") /\ last'.telefono = t
                   /\ mensajeros'[t].token = SIN_TOKEN_SESION]_vars

\* a token built at the very instant of the expiracion of the code has been
\* stored and sent
C29_Testigo ==
    /\ last.op = "verificar-codigo" /\ last.status = 200
    /\ last.telefono \in Telefonos
    /\ mensajeros[last.telefono].token = last.token
    /\ mensajeros[last.telefono].codigo = last.codigo
    /\ last.token[1] = mensajeros[last.telefono].expiracion

\* C30: a solicitar-codigo answered with success leaves for its telefono a
\* row with the code it sent and no token; the stored code is at all times
\* the code sent last, a verificar-codigo request passes its checks only
\* with that code, and one with another code is answered 'Código incorrecto'.
C30_SoloElUltimoCodigo ==
    [][\A t \in Telefonos :
          /\ (/\ RespondeCodigo("solicitar-codigo")
              /\ last'.status = 200 /\ last'.telefono = t)
             => (/\ mensajeros'[t].existe
                 /\ mensajeros'[t].codigo = last'.codigo
                 /\ mensajeros'[t].token = SIN_TOKEN_SESION
                 /\ emitido'[t].ultimo = last'.codigo)
          /\ mensajeros'[t].existe => mensajeros'[t].codigo = emitido'[t].ultimo
          /\ \A s \in Slots :
                (PasaVerificacion(s) /\ enVuelo'[s].telefono = t)
                => enVuelo'[s].codigo = emitido[t].ultimo
          /\ (/\ RespondeCodigo("verificar-codigo") /\ last'.telefono = t
              /\ emitido[t].ultimo # SIN_CODIGO
              /\ last'.codigo \in Codigos \ {emitido[t].ultimo})
             => (/\ last'.status = 401
                 /\ last'.error = "Código incorrecto"
                 /\ mensajeros' = mensajeros)]_vars

\* the code sent before the last one, still within its ten minutes, has
\* been answered 'Código incorrecto', and the row of the telefono has the
\* last code and no token
C30_Testigo ==
    /\ last.op = "verificar-codigo" /\ last.error = "Código incorrecto"
    /\ last.telefono \in Telefonos
    /\ last.codigo = emitido[last.telefono].anterior
    /\ last.codigo # emitido[last.telefono].ultimo
    /\ mensajeros[last.telefono].codigo = emitido[last.telefono].ultimo
    /\ mensajeros[last.telefono].token = SIN_TOKEN_SESION
    /\ reloj <= VIGENCIA

====
